---- MODULE Spec2Model ----
(***************************************************************************)
(* Historical temperature comparison of the two dashboards                 *)
(*   pages/01_claude버전.py  (get_historical_stats, calculate_percentile,  *)
(*                            get_temperature_description, TAB 2 loop)     *)
(*   pages/00_gemini버전.py  (tab1 rank / deviation, tab2 loop)            *)
(*                                                                         *)
(* Temperatures are held in tenths of a degree (the input file has one     *)
(* decimal), so a float of the program is an integer here.  Quotients the  *)
(* program computes in floating point (mean, percentile) are kept as exact *)
(* fractions [kind, num, den]; comparisons cross-multiply.  Floating-point *)
(* rounding of those quotients is not modelled.                            *)
(***************************************************************************)
EXTENDS Integers, Sequences, FiniteSets, TLC

VARIABLES df, op, args, out

vars == <<df, op, args, out>>

(* ----------------------------- bounds --------------------------------- *)
\* longest enumerated dataset (rows of the cleaned table)
MaxRows == 3
\* largest enumerated average temperature, in tenths of a degree
MaxTemp == 1

(* ------------------------ values of the program ----------------------- *)
\* the missing-value marker pandas puts for a reading it cannot parse
NaN == 1000000

IsNaN(x) == x = NaN

\* a float result: a fraction num/den, or nan, or Python's None
Num(n, d) == [kind |-> "num", num |-> n, den |-> d]
NaNF == [kind |-> "nan", num |-> 0, den |-> 1]
None == [kind |-> "none", num |-> 0, den |-> 1]

\* an integer (tenths) reading as a float result
FromReading(x) == IF IsNaN(x) THEN NaNF ELSE Num(x, 1)

\* IEEE comparisons: any comparison with nan is False
FLess(a, b) == a.kind = "num" /\ b.kind = "num" /\ a.num * b.den < b.num * a.den
FLeq(a, b) == a.kind = "num" /\ b.kind = "num" /\ a.num * b.den <= b.num * a.den
FEq(a, b) == a.kind = "num" /\ b.kind = "num" /\ a.num * b.den = b.num * a.den

\* a - b on floats (nan propagates)
FSub(a, b) ==
    IF a.kind = "num" /\ b.kind = "num"
    THEN Num(a.num * b.den - b.num * a.den, a.den * b.den)
    ELSE NaNF

\* the three temperature columns: 평균기온, 최저기온, 최고기온
Fields == {"avg", "min", "max"}

(* ------------------------------ inputs -------------------------------- *)
\* dates the enumerated files hold: three years of 13 November and one
\* 23 November (all four are exam dates of both calendars)
Dates == {<<1996, 11, 13>>, <<2008, 11, 13>>, <<2014, 11, 13>>, <<2017, 11, 23>>}

\* (average, lowest, highest) of a day; the last one has the average and the
\* lowest reading missing
Readings == {<<t, t - 1, t + 1>> : t \in 0..MaxTemp} \cup {<<NaN, NaN, MaxTemp + 1>>}

Rows == {[date |-> d, avg |-> r[1], min |-> r[2], max |-> r[3]] : d \in Dates, r \in Readings}

DateLeq(a, b) ==
    \/ a[1] < b[1]
    \/ a[1] = b[1] /\ a[2] < b[2]
    \/ a[1] = b[1] /\ a[2] = b[2] /\ a[3] <= b[3]

\* the file lists days in date order; a date may be listed twice
Chronological(s) == \A i \in 1..(Len(s) - 1) : DateLeq(s[i].date, s[i + 1].date)

\* the scenario of five years of 13 November: -2.0, 1.0, 3.0, -1.0, 0.5
ScenarioDf ==
    << [date |-> <<1996, 11, 13>>, avg |-> -20, min |-> -30, max |-> -10],
       [date |-> <<2008, 11, 13>>, avg |-> 10, min |-> 0, max |-> 20],
       [date |-> <<2014, 11, 13>>, avg |-> 30, min |-> 20, max |-> 40],
       [date |-> <<2015, 11, 13>>, avg |-> -10, min |-> -20, max |-> 0],
       [date |-> <<2016, 11, 13>>, avg |-> 5, min |-> -5, max |-> 15] >>

\* a table with ten years of 13, 17 and 23 November and three of 15 November:
\* fourteen of its days are exam dates, six of them at or below the 20th
\* percentile of their day and six at or above the 80th
ScenarioTop5 ==
    << [date |-> <<1994, 11, 23>>, avg |-> 1, min |-> -9, max |-> 11],
       [date |-> <<1995, 11, 23>>, avg |-> 0, min |-> -10, max |-> 10],
       [date |-> <<1996, 11, 13>>, avg |-> 0, min |-> -10, max |-> 10],
       [date |-> <<1996, 11, 23>>, avg |-> 2, min |-> -8, max |-> 12],
       [date |-> <<1997, 11, 13>>, avg |-> 2, min |-> -8, max |-> 12],
       [date |-> <<1997, 11, 23>>, avg |-> 3, min |-> -7, max |-> 13],
       [date |-> <<1998, 11, 13>>, avg |-> 3, min |-> -7, max |-> 13],
       [date |-> <<1998, 11, 23>>, avg |-> 4, min |-> -6, max |-> 14],
       [date |-> <<1999, 11, 13>>, avg |-> 4, min |-> -6, max |-> 14],
       [date |-> <<1999, 11, 17>>, avg |-> 0, min |-> -10, max |-> 10],
       [date |-> <<1999, 11, 23>>, avg |-> 5, min |-> -5, max |-> 15],
       [date |-> <<2000, 11, 13>>, avg |-> 5, min |-> -5, max |-> 15],
       [date |-> <<2000, 11, 15>>, avg |-> 0, min |-> -10, max |-> 10],
       [date |-> <<2000, 11, 17>>, avg |-> 1, min |-> -9, max |-> 11],
       [date |-> <<2000, 11, 23>>, avg |-> 6, min |-> -4, max |-> 16],
       [date |-> <<2001, 11, 13>>, avg |-> 6, min |-> -4, max |-> 16],
       [date |-> <<2001, 11, 17>>, avg |-> 3, min |-> -7, max |-> 13],
       [date |-> <<2001, 11, 23>>, avg |-> 7, min |-> -3, max |-> 17],
       [date |-> <<2002, 11, 13>>, avg |-> 7, min |-> -3, max |-> 17],
       [date |-> <<2002, 11, 17>>, avg |-> 4, min |-> -6, max |-> 14],
       [date |-> <<2003, 11, 17>>, avg |-> 5, min |-> -5, max |-> 15],
       [date |-> <<2004, 11, 17>>, avg |-> 2, min |-> -8, max |-> 12],
       [date |-> <<2005, 11, 17>>, avg |-> 6, min |-> -4, max |-> 16],
       [date |-> <<2005, 11, 23>>, avg |-> 8, min |-> -2, max |-> 18],
       [date |-> <<2006, 11, 17>>, avg |-> 7, min |-> -3, max |-> 17],
       [date |-> <<2007, 11, 15>>, avg |-> 1, min |-> -9, max |-> 11],
       [date |-> <<2008, 11, 13>>, avg |-> 1, min |-> -9, max |-> 11],
       [date |-> <<2014, 11, 13>>, avg |-> 8, min |-> -2, max |-> 18],
       [date |-> <<2016, 11, 17>>, avg |-> 8, min |-> -2, max |-> 18],
       [date |-> <<2017, 11, 23>>, avg |-> 9, min |-> -1, max |-> 19],
       [date |-> <<2018, 11, 15>>, avg |-> 2, min |-> -8, max |-> 12],
       [date |-> <<2022, 11, 17>>, avg |-> 9, min |-> -1, max |-> 19],
       [date |-> <<2025, 11, 13>>, avg |-> 9, min |-> -1, max |-> 19] >>

\* twenty-one years of 13 November, each warmer than the one before
Scenario21 ==
    [i \in 1..21 |->
        [date |-> <<1995 + i, 11, 13>>, avg |-> i - 1, min |-> i - 11, max |-> i + 9]]

Datasets ==
    {s \in UNION {[1..n -> Rows] : n \in 0..MaxRows} : Chronological(s)}
        \cup {ScenarioDf, ScenarioTop5, Scenario21}

\* (month, day) pairs a query may name: those of the dates above and 29 February
MonthDays == {<<d[2], d[3]>> : d \in Dates} \cup {<<2, 29>>}

(* ------------------------- sequence helpers --------------------------- *)
RECURSIVE SumSeq(_)
SumSeq(s) == IF s = <<>> THEN 0 ELSE Head(s) + SumSeq(Tail(s))

RECURSIVE CountLess(_, _)
\* (temps < temp_value).sum()
CountLess(s, v) ==
    IF s = <<>> THEN 0
    ELSE (IF ~IsNaN(v) /\ Head(s) < v THEN 1 ELSE 0) + CountLess(Tail(s), v)

\* df[col] as a sequence of readings
Column(rows, f) == [i \in 1..Len(rows) |-> rows[i][f]]

\* Series.dropna()
DropNa(s) == SelectSeq(s, LAMBDA x : ~IsNaN(x))

SeqMin(s) == CHOOSE x \in {s[i] : i \in 1..Len(s)} : \A j \in 1..Len(s) : x <= s[j]
SeqMax(s) == CHOOSE x \in {s[i] : i \in 1..Len(s)} : \A j \in 1..Len(s) : x >= s[j]

\* Series.mean(): missing readings are skipped; nan when none is left
Mean(s) == LET t == DropNa(s) IN IF t = <<>> THEN NaNF ELSE Num(SumSeq(t), Len(t))
\* Series.min() / Series.max(): missing readings are skipped
ColMin(s) == LET t == DropNa(s) IN IF t = <<>> THEN NaNF ELSE Num(SeqMin(t), 1)
ColMax(s) == LET t == DropNa(s) IN IF t = <<>> THEN NaNF ELSE Num(SeqMax(t), 1)

\* the filter with the day test dropped
SameDay_month_only(rows, month, day) ==
    SelectSeq(rows, LAMBDA r : r.date[2] = month)

\* df[(df['월'] == month) & (df['일'] == day)]
SameDay(rows, month, day) ==
    SelectSeq(rows, LAMBDA r : r.date[2] = month /\ r.date[3] = day)

(* ---------------------- calculate_percentile -------------------------- *)
RECURSIVE CountLeq(_, _)
CountLeq(s, v) ==
    IF s = <<>> THEN 0
    ELSE (IF ~IsNaN(v) /\ Head(s) <= v THEN 1 ELSE 0) + CountLeq(Tail(s), v)

\* ties counted: (temps <= temp_value)
calculate_percentile_ties(rows, month, day, temp_value, temp_type) ==
    LET same_day_data == SameDay(rows, month, day)
        temps == DropNa(Column(same_day_data, temp_type))
    IN  IF Len(same_day_data) = 0 THEN None
        ELSE IF Len(temps) = 0 THEN NaNF
        ELSE Num(100 * CountLeq(temps, temp_value), Len(temps))

\* the early return taken on the readings left after dropna()
calculate_percentile_guard_temps(rows, month, day, temp_value, temp_type) ==
    LET same_day_data == SameDay(rows, month, day)
        temps == DropNa(Column(same_day_data, temp_type))
    IN  IF Len(temps) = 0 THEN None
        ELSE Num(100 * CountLess(temps, temp_value), Len(temps))

\* dropna() left out: missing readings stay in the denominator
calculate_percentile_keep_na(rows, month, day, temp_value, temp_type) ==
    LET same_day_data == SameDay(rows, month, day)
        temps == Column(same_day_data, temp_type)
    IN  IF Len(same_day_data) = 0 THEN None
        ELSE Num(100 * CountLess(DropNa(temps), temp_value), Len(temps))

calculate_percentile(rows, month, day, temp_value, temp_type) ==
    LET same_day_data == SameDay(rows, month, day)
        temps == DropNa(Column(same_day_data, temp_type))
    IN  IF Len(same_day_data) = 0 THEN None
        ELSE IF Len(temps) = 0 THEN NaNF   \* numpy 0 / 0
        ELSE Num(100 * CountLess(temps, temp_value), Len(temps))

(* ---------------------- get_historical_stats -------------------------- *)
\* Series.std() squared (ddof = 1): nan below two readings.  The program's
\* value is the square root of this fraction.
Variance(s) ==
    LET t == DropNa(s)
        n == Len(t)
        sq == [i \in 1..n |-> t[i] * t[i]]
    IN  IF n < 2 THEN NaNF
        ELSE Num(n * SumSeq(sq) - SumSeq(t) * SumSeq(t), n * (n - 1))

RECURSIVE InsertByYear(_, _)
InsertByYear(r, s) ==
    IF s = <<>> THEN <<r>>
    ELSE IF r.date[1] < Head(s).date[1] THEN <<r>> \o s
    ELSE <<Head(s)>> \o InsertByYear(r, Tail(s))

RECURSIVE SortByYear(_)
\* same_day_data.sort_values('년')
SortByYear(s) ==
    IF s = <<>> THEN <<>>
    ELSE InsertByYear(s[Len(s)], SortByYear(SubSeq(s, 1, Len(s) - 1)))

\* the early return taken when no average reading is present
get_historical_stats_guard_present(rows, month, day) ==
    LET same_day_data == SameDay(rows, month, day)
        years == [i \in 1..Len(same_day_data) |-> same_day_data[i].date[1]]
    IN  IF Len(DropNa(Column(same_day_data, "avg"))) = 0 THEN None
        ELSE [kind |-> "stats",
              avg_mean |-> Mean(Column(same_day_data, "avg")),
              avg_var |-> Variance(Column(same_day_data, "avg")),
              avg_max |-> ColMax(Column(same_day_data, "avg")),
              avg_min |-> ColMin(Column(same_day_data, "avg")),
              min_mean |-> Mean(Column(same_day_data, "min")),
              min_max |-> ColMax(Column(same_day_data, "min")),
              min_min |-> ColMin(Column(same_day_data, "min")),
              max_mean |-> Mean(Column(same_day_data, "max")),
              max_max |-> ColMax(Column(same_day_data, "max")),
              max_min |-> ColMin(Column(same_day_data, "max")),
              count |-> Len(same_day_data),
              year_range |-> <<SeqMin(years), SeqMax(years)>>,
              history |-> SortByYear(same_day_data)]

get_historical_stats(rows, month, day) ==
    LET same_day_data == SameDay(rows, month, day)
        years == [i \in 1..Len(same_day_data) |-> same_day_data[i].date[1]]
    IN  IF Len(same_day_data) = 0 THEN None
        ELSE [kind |-> "stats",
              avg_mean |-> Mean(Column(same_day_data, "avg")),
              avg_var |-> Variance(Column(same_day_data, "avg")),
              avg_max |-> ColMax(Column(same_day_data, "avg")),
              avg_min |-> ColMin(Column(same_day_data, "avg")),
              min_mean |-> Mean(Column(same_day_data, "min")),
              min_max |-> ColMax(Column(same_day_data, "min")),
              min_min |-> ColMin(Column(same_day_data, "min")),
              max_mean |-> Mean(Column(same_day_data, "max")),
              max_max |-> ColMax(Column(same_day_data, "max")),
              max_min |-> ColMin(Column(same_day_data, "max")),
              count |-> Len(same_day_data),
              year_range |-> <<SeqMin(years), SeqMax(years)>>,
              history |-> SortByYear(same_day_data)]

(* ------------------- get_temperature_description ---------------------- *)
\* the band tests with < for <=
get_temperature_description_exclusive(percentile) ==
    IF FLess(percentile, Num(5, 1)) THEN [band |-> 1, color |-> "blue"]
    ELSE IF FLess(percentile, Num(15, 1)) THEN [band |-> 2, color |-> "lightblue"]
    ELSE IF FLess(percentile, Num(30, 1)) THEN [band |-> 3, color |-> "cyan"]
    ELSE IF FLess(percentile, Num(70, 1)) THEN [band |-> 4, color |-> "gray"]
    ELSE IF FLess(percentile, Num(85, 1)) THEN [band |-> 5, color |-> "orange"]
    ELSE IF FLess(percentile, Num(95, 1)) THEN [band |-> 6, color |-> "orangered"]
    ELSE [band |-> 7, color |-> "red"]

\* band 1 is "역대급 추위!", ..., band 7 is "역대급 더위!"
get_temperature_description(percentile) ==
    IF FLeq(percentile, Num(5, 1)) THEN [band |-> 1, color |-> "blue"]
    ELSE IF FLeq(percentile, Num(15, 1)) THEN [band |-> 2, color |-> "lightblue"]
    ELSE IF FLeq(percentile, Num(30, 1)) THEN [band |-> 3, color |-> "cyan"]
    ELSE IF FLeq(percentile, Num(70, 1)) THEN [band |-> 4, color |-> "gray"]
    ELSE IF FLeq(percentile, Num(85, 1)) THEN [band |-> 5, color |-> "orange"]
    ELSE IF FLeq(percentile, Num(95, 1)) THEN [band |-> 6, color |-> "orangered"]
    ELSE [band |-> 7, color |-> "red"]

(* --------------------- the exam-date calendars ------------------------ *)
\* SUNEUNG_DATES of the second dashboard: 학년도 -> exam date
SUNEUNG_DATES ==
    << [year |-> 1994, date |-> <<1993, 11, 16>>],
       [year |-> 1995, date |-> <<1994, 11, 23>>],
       [year |-> 1996, date |-> <<1995, 11, 22>>],
       [year |-> 1997, date |-> <<1996, 11, 13>>],
       [year |-> 1998, date |-> <<1997, 11, 19>>],
       [year |-> 1999, date |-> <<1998, 11, 18>>],
       [year |-> 2000, date |-> <<1999, 11, 17>>],
       [year |-> 2001, date |-> <<2000, 11, 15>>],
       [year |-> 2002, date |-> <<2001, 11, 7>>],
       [year |-> 2003, date |-> <<2002, 11, 6>>],
       [year |-> 2004, date |-> <<2003, 11, 5>>],
       [year |-> 2005, date |-> <<2004, 11, 17>>],
       [year |-> 2006, date |-> <<2005, 11, 23>>],
       [year |-> 2007, date |-> <<2006, 11, 16>>],
       [year |-> 2008, date |-> <<2007, 11, 15>>],
       [year |-> 2009, date |-> <<2008, 11, 13>>],
       [year |-> 2010, date |-> <<2009, 11, 12>>],
       [year |-> 2011, date |-> <<2010, 11, 18>>],
       [year |-> 2012, date |-> <<2011, 11, 10>>],
       [year |-> 2013, date |-> <<2012, 11, 8>>],
       [year |-> 2014, date |-> <<2013, 11, 7>>],
       [year |-> 2015, date |-> <<2014, 11, 13>>],
       [year |-> 2016, date |-> <<2015, 11, 12>>],
       [year |-> 2017, date |-> <<2016, 11, 17>>],
       [year |-> 2018, date |-> <<2017, 11, 23>>],
       [year |-> 2019, date |-> <<2018, 11, 15>>],
       [year |-> 2020, date |-> <<2019, 11, 14>>],
       [year |-> 2021, date |-> <<2020, 12, 3>>],
       [year |-> 2022, date |-> <<2021, 11, 18>>],
       [year |-> 2023, date |-> <<2022, 11, 17>>],
       [year |-> 2024, date |-> <<2023, 11, 16>>],
       [year |-> 2025, date |-> <<2024, 11, 14>>],
       [year |-> 2026, date |-> <<2025, 11, 13>>] >>

\* suneung_dates of the first dashboard: exam year -> exam date
suneung_dates ==
    << [year |-> 1994, date |-> <<1994, 11, 23>>],
       [year |-> 1995, date |-> <<1995, 11, 22>>],
       [year |-> 1996, date |-> <<1996, 11, 13>>],
       [year |-> 1997, date |-> <<1997, 11, 19>>],
       [year |-> 1998, date |-> <<1998, 11, 18>>],
       [year |-> 1999, date |-> <<1999, 11, 17>>],
       [year |-> 2000, date |-> <<2000, 11, 15>>],
       [year |-> 2001, date |-> <<2001, 11, 7>>],
       [year |-> 2002, date |-> <<2002, 11, 6>>],
       [year |-> 2003, date |-> <<2003, 11, 5>>],
       [year |-> 2004, date |-> <<2004, 11, 17>>],
       [year |-> 2005, date |-> <<2005, 11, 23>>],
       [year |-> 2006, date |-> <<2006, 11, 16>>],
       [year |-> 2007, date |-> <<2007, 11, 15>>],
       [year |-> 2008, date |-> <<2008, 11, 13>>],
       [year |-> 2009, date |-> <<2009, 11, 12>>],
       [year |-> 2010, date |-> <<2010, 11, 18>>],
       [year |-> 2011, date |-> <<2011, 11, 10>>],
       [year |-> 2012, date |-> <<2012, 11, 8>>],
       [year |-> 2013, date |-> <<2013, 11, 7>>],
       [year |-> 2014, date |-> <<2014, 11, 13>>],
       [year |-> 2015, date |-> <<2015, 11, 12>>],
       [year |-> 2016, date |-> <<2016, 11, 17>>],
       [year |-> 2017, date |-> <<2017, 11, 23>>],
       [year |-> 2018, date |-> <<2018, 11, 15>>],
       [year |-> 2019, date |-> <<2019, 11, 14>>],
       [year |-> 2020, date |-> <<2020, 12, 3>>],
       [year |-> 2021, date |-> <<2021, 11, 18>>],
       [year |-> 2022, date |-> <<2022, 11, 17>>],
       [year |-> 2023, date |-> <<2023, 11, 16>>],
       [year |-> 2024, date |-> <<2024, 11, 14>>],
       [year |-> 2025, date |-> <<2025, 11, 13>>] >>

\* df[df['날짜'] == date]
OnDate(rows, date) == SelectSeq(rows, LAMBDA r : r.date = date)

(* ------------------ TAB 2 of the second dashboard --------------------- *)
\* the deviation taken as mean - value
suneung_entry_reversed(e, rows) ==
    LET row == OnDate(rows, e.date)[1]
        month == e.date[2]
        day == e.date[3]
        stats == get_historical_stats(rows, month, day)
    IN  [year |-> e.year, date |-> e.date,
         avg |-> row.avg, min |-> row.min, max |-> row.max,
         hist_mean |-> stats.avg_mean,
         deviation |-> FSub(stats.avg_mean, FromReading(row.avg)),
         percentile |-> calculate_percentile(rows, month, day, row.avg, "avg")]

\* one entry of suneung_data
suneung_entry(e, rows) ==
    LET row == OnDate(rows, e.date)[1]
        month == e.date[2]
        day == e.date[3]
        stats == get_historical_stats(rows, month, day)
        avg_pct == IF stats.kind = "stats"
                   THEN calculate_percentile(rows, month, day, row.avg, "avg")
                   ELSE None
    IN  [year |-> e.year, date |-> e.date,
         avg |-> row.avg, min |-> row.min, max |-> row.max,
         hist_mean |-> IF stats.kind = "stats" THEN stats.avg_mean ELSE None,
         deviation |-> IF stats.kind = "stats"
                       THEN FSub(FromReading(row.avg), stats.avg_mean)
                       ELSE None,
         percentile |-> avg_pct]

RECURSIVE suneung_loop_per_row(_, _)
\* an entry appended for every row of the date instead of the first one
suneung_loop_per_row(cal, rows) ==
    IF cal = <<>> THEN <<>>
    ELSE LET e == Head(cal)
             day_data == OnDate(rows, e.date)
         IN  [i \in 1..Len(day_data) |-> suneung_entry(e, rows)]
                 \o suneung_loop_per_row(Tail(cal), rows)

RECURSIVE suneung_loop(_, _)
\* for year, date_str in SUNEUNG_DATES.items(): ...
suneung_loop(cal, rows) ==
    IF cal = <<>> THEN <<>>
    ELSE LET e == Head(cal)
             day_data == OnDate(rows, e.date)
         IN  (IF Len(day_data) > 0 THEN <<suneung_entry(e, rows)>> ELSE <<>>)
                 \o suneung_loop(Tail(cal), rows)

\* DataFrame.head(5)
Head5(s) == SubSeq(s, 1, IF Len(s) < 5 THEN Len(s) ELSE 5)

RECURSIVE InsertByPercentile(_, _, _)
\* e goes behind the entries that sort_values puts no later than it
InsertByPercentile(e, s, ascending) ==
    IF s = <<>> THEN <<e>>
    ELSE IF (IF ascending THEN FLess(e.percentile, Head(s).percentile)
                          ELSE FLess(Head(s).percentile, e.percentile))
         THEN <<e>> \o s
         ELSE <<Head(s)>> \o InsertByPercentile(e, Tail(s), ascending)

RECURSIVE SortByPercentile(_, _)
\* sort_values('퍼센타일', ascending=...); entries of equal percentile are kept
\* in table order here (the library leaves their order open)
SortByPercentile(s, ascending) ==
    IF s = <<>> THEN <<>>
    ELSE InsertByPercentile(s[Len(s)], SortByPercentile(SubSeq(s, 1, Len(s) - 1), ascending),
                            ascending)

\* suneung_df[suneung_df['퍼센타일'] <= 20].sort_values('퍼센타일')
cold_suneungs(data) ==
    SortByPercentile(SelectSeq(data, LAMBDA e : FLeq(e.percentile, Num(20, 1))), TRUE)

\* suneung_df[suneung_df['퍼센타일'] >= 80].sort_values('퍼센타일', ascending=False)
warm_suneungs(data) ==
    SortByPercentile(SelectSeq(data, LAMBDA e : FLeq(Num(80, 1), e.percentile)), FALSE)

\* the first five taken before the sort
top5_cold_unsorted(data) ==
    SortByPercentile(Head5(SelectSeq(data, LAMBDA e : FLeq(e.percentile, Num(20, 1)))), TRUE)

\* the rows listed under "역대 가장 추웠던 수능일 TOP 5"
top5_cold(data) == Head5(cold_suneungs(data))

\* the rows listed under "역대 가장 따뜻했던 수능일 TOP 5"
top5_warm(data) == Head5(warm_suneungs(data))

\* TAB 2 of the second dashboard: the table, the count of exam days at or
\* below the 30th percentile, and the two lists
tab2_suneung(rows) ==
    LET data == suneung_loop(SUNEUNG_DATES, rows)
    IN  IF Len(data) > 0
        THEN [suneung_data |-> data,
              cold_count |-> Len(SelectSeq(data, LAMBDA e : FLeq(e.percentile, Num(30, 1)))),
              cold |-> top5_cold(data),
              warm |-> top5_warm(data)]
        ELSE [suneung_data |-> data, cold_count |-> 0, cold |-> <<>>, warm |-> <<>>]

(* ------------------- tab2 of the first dashboard ---------------------- *)
(* ------------------ TAB 1 of the second dashboard --------------------- *)
\* one of the three columns col_a, col_b, col_c
tab1_column(rows, month, day, row, temp_type, hist_mean) ==
    LET pct == calculate_percentile(rows, month, day, row[temp_type], temp_type)
    IN  [pct |-> pct,
         desc |-> get_temperature_description(pct),
         diff |-> FSub(FromReading(row[temp_type]), hist_mean)]

tab1_claude(rows, selected_date) ==
    LET selected_data == OnDate(rows, selected_date)
        month == selected_date[2]
        day == selected_date[3]
    IN  IF Len(selected_data) = 0 THEN [kind |-> "warning"]
        ELSE LET row == selected_data[1]
                 stats == get_historical_stats(rows, month, day)
             IN  IF stats.kind = "stats"
                 THEN [kind |-> "compare",
                       count |-> stats.count,
                       year_range |-> stats.year_range,
                       avg |-> tab1_column(rows, month, day, row, "avg", stats.avg_mean),
                       min |-> tab1_column(rows, month, day, row, "min", stats.min_mean),
                       max |-> tab1_column(rows, month, day, row, "max", stats.max_mean)]
                 ELSE [kind |-> "metrics"]

RECURSIVE tab2_loop(_, _)
\* for year, date_str in suneung_dates.items(): ...
tab2_loop(cal, rows) ==
    IF cal = <<>> THEN <<>>
    ELSE LET e == Head(cal)
             mask == OnDate(rows, e.date)
         IN  (IF Len(mask) > 0
              THEN <<[year |-> e.year, date |-> e.date, avg |-> mask[1].avg,
                      min |-> mask[1].min, max |-> mask[1].max]>>
              ELSE <<>>)
                 \o tab2_loop(Tail(cal), rows)

(* ------------------- tab1 of the first dashboard ---------------------- *)
RECURSIVE InsertDesc(_, _)
InsertDesc(x, s) ==
    IF s = <<>> THEN <<x>>
    ELSE IF x > Head(s) THEN <<x>> \o s
    ELSE <<Head(s)>> \o InsertDesc(x, Tail(s))

RECURSIVE SortDesc(_)
SortDesc(s) == IF s = <<>> THEN <<>> ELSE InsertDesc(Head(s), SortDesc(Tail(s)))

\* the rank of a tie taken as its last position in the sorted order
rank_desc_max(col) ==
    LET sorted == SortDesc(DropNa(col))
    IN  [i \in 1..Len(col) |->
            IF IsNaN(col[i]) THEN NaN
            ELSE CHOOSE p \in 1..Len(sorted) :
                    /\ sorted[p] = col[i]
                    /\ \A q \in 1..Len(sorted) : sorted[q] = col[i] => q <= p]

\* Series.rank(ascending=False, method='min'): the readings are sorted from
\* the highest down, a reading gets the first position of its value in that
\* order, and a missing reading gets nan
rank_desc_min(col) ==
    LET sorted == SortDesc(DropNa(col))
    IN  [i \in 1..Len(col) |->
            IF IsNaN(col[i]) THEN NaN
            ELSE CHOOSE p \in 1..Len(sorted) :
                    /\ sorted[p] = col[i]
                    /\ \A q \in 1..Len(sorted) : sorted[q] = col[i] => p <= q]

\* index of current_year_data.iloc[0] in history_df
FirstOfYear(s, year) ==
    CHOOSE i \in 1..Len(s) : s[i].date[1] = year /\ \A j \in 1..(i - 1) : s[j].date[1] # year

\* the historical mean taken over every year, the selected one included
tab1_compare_mean_all(rows, selected_date) ==
    LET sel_month == selected_date[2]
        sel_day == selected_date[3]
        history_df == SameDay(rows, sel_month, sel_day)
        IsCurrent(r) == r.date[1] = selected_date[1]
        current_year_data == SelectSeq(history_df, IsCurrent)
        nothing == [kind |-> "warning", cur_temp |-> NaN, avg_temp_hist |-> NaNF,
                    diff |-> NaNF, rank |-> <<>>, cur_rank |-> NaN, total_count |-> 0]
    IN  IF Len(current_year_data) = 0 THEN nothing
        ELSE LET cur_temp == current_year_data[1].avg
                 past_df == SelectSeq(history_df, LAMBDA r : ~IsCurrent(r))
                 avg_temp_hist == Mean(Column(history_df, "avg"))
                 rank == rank_desc_min(Column(history_df, "avg"))
                 cur_rank == rank[FirstOfYear(history_df, selected_date[1])]
             IN  [kind |-> IF IsNaN(cur_rank) THEN "ValueError" ELSE "info",  \* int(nan)
                  cur_temp |-> cur_temp,
                  avg_temp_hist |-> avg_temp_hist,
                  diff |-> FSub(FromReading(cur_temp), avg_temp_hist),
                  rank |-> rank,
                  cur_rank |-> cur_rank,
                  total_count |-> Len(history_df)]

\* tab1 up to the st.info line
tab1_compare(rows, selected_date) ==
    LET sel_month == selected_date[2]
        sel_day == selected_date[3]
        history_df == SameDay(rows, sel_month, sel_day)
        IsCurrent(r) == r.date[1] = selected_date[1]
        current_year_data == SelectSeq(history_df, IsCurrent)
        nothing == [kind |-> "warning", cur_temp |-> NaN, avg_temp_hist |-> NaNF,
                    diff |-> NaNF, rank |-> <<>>, cur_rank |-> NaN, total_count |-> 0]
    IN  IF Len(current_year_data) = 0 THEN nothing
        ELSE LET cur_temp == current_year_data[1].avg
                 past_df == SelectSeq(history_df, LAMBDA r : ~IsCurrent(r))
                 avg_temp_hist == Mean(Column(past_df, "avg"))
                 rank == rank_desc_min(Column(history_df, "avg"))
                 cur_rank == rank[FirstOfYear(history_df, selected_date[1])]
             IN  [kind |-> IF IsNaN(cur_rank) THEN "ValueError" ELSE "info",  \* int(nan)
                  cur_temp |-> cur_temp,
                  avg_temp_hist |-> avg_temp_hist,
                  diff |-> FSub(FromReading(cur_temp), avg_temp_hist),
                  rank |-> rank,
                  cur_rank |-> cur_rank,
                  total_count |-> Len(history_df)]

(* --------------------------- the machine ------------------------------ *)
\* Every interaction reruns the script on the memoized table: one
\* operation is computed from the loaded table, then the script reruns.
Init ==
    /\ df \in Datasets
    /\ op = "load"
    /\ args = <<>>
    /\ out = None

\* values a percentile query is asked for: every reading of the column, one
\* above the largest enumerated reading, one below the smallest, and nan
QueryValues(f) ==
    {df[i][f] : i \in 1..Len(df)} \cup {MaxTemp + 2, -2, NaN}

Percentile ==
    /\ op = "load"
    /\ \E md \in MonthDays, f \in Fields :
        \E v \in QueryValues(f) :
            /\ op' = "percentile"
            /\ args' = [month |-> md[1], day |-> md[2], value |-> v, field |-> f]
            /\ out' = calculate_percentile(df, md[1], md[2], v, f)
            /\ UNCHANGED df

Stats ==
    /\ op = "load"
    /\ \E md \in MonthDays :
            /\ op' = "stats"
            /\ args' = [month |-> md[1], day |-> md[2]]
            /\ out' = get_historical_stats(df, md[1], md[2])
            /\ UNCHANGED df

\* TAB 2 of the second dashboard
SuneungClaude ==
    /\ op = "load"
    /\ op' = "suneung_claude"
    /\ args' = <<>>
    /\ out' = tab2_suneung(df)
    /\ UNCHANGED df

\* tab2 of the first dashboard
SuneungGemini ==
    /\ op = "load"
    /\ op' = "suneung_gemini"
    /\ args' = <<>>
    /\ out' = tab2_loop(suneung_dates, df)
    /\ UNCHANGED df

\* dates st.date_input lets the user pick: from the first to the last date
\* of the table, whether the table has the date or not
Selectable ==
    {d \in Dates \cup {df[i].date : i \in 1..Len(df)} :
        /\ \E i \in 1..Len(df) : DateLeq(df[i].date, d)
        /\ \E i \in 1..Len(df) : DateLeq(d, df[i].date)}

\* tab1 of the first dashboard
Tab1Gemini ==
    /\ op = "load"
    /\ \E d \in Selectable :
            /\ op' = "tab1_gemini"
            /\ args' = [selected_date |-> d]
            /\ out' = tab1_compare(df, d)
            /\ UNCHANGED df

\* TAB 1 of the second dashboard
Tab1Claude ==
    /\ op = "load"
    /\ \E d \in Selectable :
            /\ op' = "tab1_claude"
            /\ args' = [selected_date |-> d]
            /\ out' = tab1_claude(df, d)
            /\ UNCHANGED df

Rerun ==
    /\ op # "load"
    /\ op' = "load"
    /\ args' = <<>>
    /\ out' = None
    /\ UNCHANGED df

Next ==
    Percentile \/ Stats \/ SuneungClaude \/ SuneungGemini \/ Tab1Gemini \/ Tab1Claude \/ Rerun

Spec == Init /\ [][Next]_vars

(* ------------- get_temperature_description on its own ------------------ *)
\* percentiles from 0.00 to 100.00 in steps of 0.01
InitDescribe ==
    /\ df = <<>>
    /\ op = "input"
    /\ args \in {[percentile |-> Num(n, 100)] : n \in 0..10000}
    /\ out = None

Describe ==
    /\ op = "input"
    /\ op' = "describe"
    /\ out' = get_temperature_description(args.percentile)
    /\ UNCHANGED <<df, args>>

NextDescribe == Describe

SpecDescribe == InitDescribe /\ [][NextDescribe]_vars

(* --------------------- start of the two scripts ----------------------- *)
\* a temperature cell that is no number, and a date cell that is no date
BadNum == 2000000
BadDate == <<0, 0, 0>>

\* rows of the input file below its header, as text cells
RawRows ==
    {[date |-> d, avg |-> r[1], min |-> r[2], max |-> r[3]] :
        d \in {<<1996, 11, 13>>, <<2008, 11, 13>>, BadDate},
        r \in Readings \cup {<<BadNum, 0, 1>>}}

RawTables == UNION {[1..n -> RawRows] : n \in 0..MaxRows}

\* what the script is started on: the file comes from the uploader or is the
\* default file; its bytes decode as utf-8, as cp949/euc-kr, as both (plain
\* ASCII) or as neither ("bad"); the default file may be missing
LoadInputs ==
    [source : {"upload", "default"}, kind : {"both", "utf8", "cp949"}, rows : RawTables]
        \cup [source : {"upload", "default"}, kind : {"bad"}, rows : {<<>>}]
        \cup [source : {"default"}, kind : {"missing"}, rows : {<<>>}]

\* pd.to_numeric(df[col], errors='coerce')
to_numeric_coerce(x) == IF x = BadNum THEN NaN ELSE x

\* load_data of the second dashboard: None (with st.error) when read_csv
\* raises; rows whose date does not parse are dropped, temperatures that are
\* no numbers become nan
load_data_claude(file) ==
    IF file.kind \in {"both", "cp949"}
    THEN LET dated == SelectSeq(file.rows, LAMBDA r : r.date # BadDate)
         IN  [loaded |-> TRUE,
              table |-> [i \in 1..Len(dated) |->
                            [date |-> dated[i].date,
                             avg |-> to_numeric_coerce(dated[i].avg),
                             min |-> to_numeric_coerce(dated[i].min),
                             max |-> to_numeric_coerce(dated[i].max)]],
              shown |-> <<>>]
    ELSE [loaded |-> FALSE, table |-> <<>>, shown |-> <<"st.error">>]

\* main of the second dashboard up to st.tabs
main_claude(file) ==
    LET r == load_data_claude(file)
        notice == IF file.source = "upload" THEN "sidebar.success" ELSE "sidebar.info"
    IN  IF ~r.loaded \/ Len(r.table) = 0
        THEN [table |-> r.table, halted |-> TRUE,
              shown |-> <<"st.title">> \o r.shown \o <<notice, "st.error">>]
        ELSE [table |-> r.table, halted |-> FALSE,
              shown |-> <<"st.title", notice, "sidebar.markdown", "st.tabs">>]

\* load_data of the first dashboard: utf-8 first; on any error file.seek(0),
\* which a path (the default file) does not have, then cp949; the date column
\* through pd.to_datetime without errors='coerce'; temperatures as read
load_data_gemini(file) ==
    LET decoded == \/ file.kind \in {"both", "utf8"}
                   \/ file.kind = "cp949" /\ file.source = "upload"
        dates_parse == \A i \in 1..Len(file.rows) : file.rows[i].date # BadDate
    IN  IF decoded /\ dates_parse
        THEN [loaded |-> TRUE, table |-> file.rows]
        ELSE [loaded |-> FALSE, table |-> <<>>]   \* the exception leaves load_data

\* the first dashboard up to st.tabs
main_gemini(file) ==
    IF file.kind = "missing"
    THEN [table |-> <<>>, halted |-> TRUE, shown |-> <<"st.title", "st.error">>]   \* st.stop()
    ELSE LET r == load_data_gemini(file)
         IN  IF r.loaded
             THEN [table |-> r.table, halted |-> FALSE,
                   shown |-> <<"st.title", "sidebar.success", "st.tabs">>]
             ELSE [table |-> <<>>, halted |-> TRUE, shown |-> <<"st.title", "exception">>]

InitLoad ==
    /\ df = <<>>
    /\ op = "start"
    /\ args \in LoadInputs
    /\ out = None

MainClaude ==
    /\ op = "start"
    /\ op' = "main_claude"
    /\ out' = main_claude(args)
    /\ df' = out'.table
    /\ UNCHANGED args

MainGemini ==
    /\ op = "start"
    /\ op' = "main_gemini"
    /\ out' = main_gemini(args)
    /\ df' = out'.table
    /\ UNCHANGED args

NextLoad == MainClaude \/ MainGemini

SpecLoad == InitLoad /\ [][NextLoad]_vars

(* ======================= properties =================================== *)
\* rows of df on the queried month and day, counted without the operators above
Matching(month, day) ==
    {i \in 1..Len(df) : df[i].date[2] = month /\ df[i].date[3] = day}
Present(month, day, f) == {i \in Matching(month, day) : df[i][f] # NaN}
Below(month, day, f, v) == {i \in Present(month, day, f) : v # NaN /\ df[i][f] < v}

\* one record per date, as the input file has it
DistinctDates == \A i, j \in 1..Len(df) : df[i].date = df[j].date => i = j

PctCall == op = "percentile"
StatsCall == op = "stats"

\* C1 as stated: with at least one same-month/day record the result is
\* 100 * (values strictly below the query) / (number of same-month/day records).
\* Stated here for the tables with one record per date and a month and day on
\* which at least one reading of the field is present.
C1_PercentileOverAllRecords ==
    (PctCall /\ DistinctDates /\ Present(args.month, args.day, args.field) # {}) =>
        /\ out.kind = "num"
        /\ out.num * Cardinality(Matching(args.month, args.day))
             = 100 * Cardinality(Below(args.month, args.day, args.field, args.value)) * out.den

\* C1 amended: the denominator is the number of same-month/day records whose
\* reading of the field is present (nan when there is none), and the scenario
\* of 13 November {-2.0, 1.0, 3.0, -1.0, 0.5} queried at 1.0 gives 60
C1_PercentileOverPresentReadings ==
    (PctCall /\ Matching(args.month, args.day) # {}) =>
        LET n == Cardinality(Present(args.month, args.day, args.field))
            less == Cardinality(Below(args.month, args.day, args.field, args.value))
        IN  /\ n = 0 => out.kind = "nan"
            /\ n > 0 => out.kind = "num" /\ out.num * n = 100 * less * out.den
            /\ (df = ScenarioDf /\ args = [month |-> 11, day |-> 13, value |-> 10, field |-> "avg"])
                  => out.kind = "num" /\ out.num = 60 * out.den

C1_Witness ==
    /\ PctCall
    /\ df = ScenarioDf
    /\ args = [month |-> 11, day |-> 13, value |-> 10, field |-> "avg"]
    /\ out.kind = "num" /\ out.num = 60 * out.den

\* C2: get_historical_stats and calculate_percentile return None exactly when
\* no record of the table has the queried month and day
C2_NotFoundIffNoRecord ==
    (PctCall \/ StatsCall) =>
        (out.kind = "none" <=> Matching(args.month, args.day) = {})

C2_Witness ==
    /\ PctCall
    /\ Len(df) > 0
    /\ Matching(args.month, args.day) = {}
    /\ out.kind = "none"

\* C3: the count of get_historical_stats is the number of records of the
\* table with exactly the queried month and day
C3_CountIsMatchingRecords ==
    (StatsCall /\ out.kind = "stats") =>
        out.count = Cardinality(Matching(args.month, args.day))

C3_Witness ==
    /\ StatsCall
    /\ out.kind = "stats"
    /\ out.count = 2
    /\ Len(df) = 3

\* C4 as stated: a percentile that is not None is a number from 0 to 100
C4_PercentileInRange ==
    (PctCall /\ out.kind # "none") =>
        /\ out.kind = "num"
        /\ 0 <= out.num
        /\ out.num <= 100 * out.den

\* C5 as stated: for query values v1 <= v2 on the same table, month, day and
\* field, percentile(v1) <= percentile(v2)
C5_PercentileMonotone ==
    (PctCall /\ out.kind # "none" /\ args.value # NaN) =>
        \A v2 \in QueryValues(args.field) \ {NaN} :
            args.value <= v2 =>
                FLeq(out, calculate_percentile(df, args.month, args.day, v2, args.field))

\* C5 where the month and day have a reading of the field: the percentile is
\* monotonic there
C5_MonotoneOnPresentReadings ==
    (PctCall /\ Present(args.month, args.day, args.field) # {} /\ args.value # NaN) =>
        \A v2 \in QueryValues(args.field) \ {NaN} :
            args.value <= v2 =>
                FLeq(out, calculate_percentile(df, args.month, args.day, v2, args.field))

\* C6: a query equal to the historical minimum of the field gives 0 and a
\* query strictly above the historical maximum gives 100
HistMin(st, f) == IF f = "avg" THEN st.avg_min ELSE IF f = "min" THEN st.min_min ELSE st.max_min
HistMax(st, f) == IF f = "avg" THEN st.avg_max ELSE IF f = "min" THEN st.min_max ELSE st.max_max

C6_MinGivesZeroAboveMaxGivesHundred ==
    (PctCall /\ Matching(args.month, args.day) # {}) =>
        LET st == get_historical_stats(df, args.month, args.day)
            v == FromReading(args.value)
        IN  /\ FEq(v, HistMin(st, args.field)) => FEq(out, Num(0, 1))
            /\ FLess(HistMax(st, args.field), v) => FEq(out, Num(100, 1))

C6_Witness ==
    /\ PctCall
    /\ Cardinality(Matching(args.month, args.day)) = 3
    /\ Cardinality(Present(args.month, args.day, args.field)) = 2
    /\ FLess(HistMax(get_historical_stats(df, args.month, args.day), args.field),
             FromReading(args.value))
    /\ FEq(out, Num(100, 1))

\* C7: both exam-date loops give one entry for each calendar entry whose date
\* has a record, none for the others, in calendar order
HasRecord(date) == \E i \in 1..Len(df) : df[i].date = date
MatchedEntries(cal) == {k \in 1..Len(cal) : HasRecord(cal[k].date)}
CalendarIndex(cal, e) == CHOOSE k \in 1..Len(cal) : cal[k].date = e.date

KeepsMatchedInOrder(cal, data) ==
    /\ Len(data) = Cardinality(MatchedEntries(cal))
    /\ Len(data) = Len(cal) - Cardinality((1..Len(cal)) \ MatchedEntries(cal))
    /\ \A j \in 1..Len(data) :
          /\ \E k \in MatchedEntries(cal) : cal[k].date = data[j].date /\ cal[k].year = data[j].year
          /\ data[j].avg = df[CHOOSE i \in 1..Len(df) :
                                 /\ df[i].date = data[j].date
                                 /\ \A h \in 1..(i - 1) : df[h].date # data[j].date].avg
    /\ \A j \in 1..(Len(data) - 1) : CalendarIndex(cal, data[j]) < CalendarIndex(cal, data[j + 1])

C7_OneEntryPerMatchedDate ==
    /\ op = "suneung_claude" => KeepsMatchedInOrder(SUNEUNG_DATES, out.suneung_data)
    /\ op = "suneung_gemini" => KeepsMatchedInOrder(suneung_dates, out)

\* a table that lists one exam date twice and lacks others
C7_Witness ==
    /\ op = "suneung_claude"
    /\ Len(df) = 3
    /\ df[1].date = df[2].date
    /\ Len(out.suneung_data) = 2
    /\ Len(SUNEUNG_DATES) - Len(out.suneung_data) = 31

\* C8: a percentile from 0 to 100 falls in the one band whose inclusive upper
\* bound (5, 15, 30, 70, 85, 95, and above 95) is the first it does not exceed;
\* 5.00 is in band 1 and 5.01 in band 2
BandBounds == <<5, 15, 30, 70, 85, 95>>

C8_BandsPartition ==
    op = "describe" =>
        LET p == args.percentile
        IN  /\ out.band \in 1..7
            /\ out.band = 1 + Cardinality({k \in 1..6 : p.num > BandBounds[k] * p.den})
            /\ out.band <= 6 => p.num <= BandBounds[out.band] * p.den
            /\ out.band >= 2 => p.num > BandBounds[out.band - 1] * p.den
            /\ p = Num(500, 100) => out.band = 1
            /\ p = Num(501, 100) => out.band = 2

C8_Witness ==
    /\ op = "describe"
    /\ args.percentile = Num(501, 100)
    /\ out.band = 2

\* C9 as stated: for every entry of the second dashboard's exam-date table whose
\* percentile is not 50, percentile > 50 exactly when deviation > 0.  Stated
\* here for the tables with one record per date and no missing reading.
NoMissing == \A i \in 1..Len(df), f \in Fields : df[i][f] # NaN

C9_SignAgreesWithMedianSide ==
    (op = "suneung_claude" /\ DistinctDates /\ NoMissing) =>
        \A j \in 1..Len(out.suneung_data) :
            ~FEq(out.suneung_data[j].percentile, Num(50, 1)) =>
                (FLess(Num(50, 1), out.suneung_data[j].percentile)
                    <=> FLess(Num(0, 1), out.suneung_data[j].deviation))

\* C9 amended: an entry above its historical mean (compared exactly, the mean
\* being a fraction here) has a positive percentile
C9_AboveMeanHasPositivePercentile ==
    op = "suneung_claude" =>
        \A j \in 1..Len(out.suneung_data) :
            FLess(Num(0, 1), out.suneung_data[j].deviation)
                => FLess(Num(0, 1), out.suneung_data[j].percentile)

\* an entry above its mean and below the 50th percentile
C9_Witness ==
    /\ op = "suneung_claude"
    /\ \E j \in 1..Len(out.suneung_data) :
          /\ FLess(Num(0, 1), out.suneung_data[j].deviation)
          /\ FLess(Num(0, 1), out.suneung_data[j].percentile)
          /\ FLess(out.suneung_data[j].percentile, Num(50, 1))

\* C10: the rank shown in the first dashboard is 1 + the number of
\* same-month/day records with a strictly higher average temperature; records
\* with equal averages have the same rank; the rank is from 1 to the count shown
C10_CompetitionRank ==
    (op = "tab1_gemini" /\ out.kind = "info") =>
        LET d == args.selected_date
            same == Matching(d[2], d[3])
            higher == {i \in same : df[i].avg # NaN /\ df[i].avg > out.cur_temp}
            history == [j \in 1..Cardinality(same) |->
                          df[CHOOSE i \in same : Cardinality({h \in same : h < i}) = j - 1]]
        IN  /\ out.cur_rank = 1 + Cardinality(higher)
            /\ 1 <= out.cur_rank
            /\ out.cur_rank <= out.total_count
            /\ out.total_count = Cardinality(same)
            /\ \A j \in 1..Len(history) :
                  history[j].avg = out.cur_temp => out.rank[j] = out.cur_rank

\* the selected day ties with another year below a warmer one: both rank 2 of 3
C10_Witness ==
    /\ op = "tab1_gemini"
    /\ out.kind = "info"
    /\ out.total_count = 3
    /\ out.cur_rank = 2
    /\ Cardinality({j \in 1..3 : out.rank[j] = 2}) = 2

\* C11: the coldest list has at most five entries of the table, each at or
\* below the 20th percentile, in ascending order of percentile, and no entry at
\* or below the 20th percentile that is left out has a lower percentile than a
\* listed one; the warmest list likewise with the 80th percentile and
\* descending order; no entry is in both lists.  The lists are not shorter than
\* they need be: five entries, or the whole pool when it is smaller.
Min5(n) == IF n < 5 THEN n ELSE 5

AtMost20(e) == e.percentile.kind = "num" /\ e.percentile.num <= 20 * e.percentile.den
AtLeast80(e) == e.percentile.kind = "num" /\ e.percentile.num >= 80 * e.percentile.den
LowerPct(a, b) == a.percentile.num * b.percentile.den < b.percentile.num * a.percentile.den

\* list is a top list of the entries of data numbered by pool; coldest says
\* which end of the pool comes first
IsTopList(list, data, pool, coldest) ==
    LET listed == {j \in pool : \E k \in 1..Len(list) : list[k] = data[j]}
        Before(a, b) == IF coldest THEN LowerPct(a, b) ELSE LowerPct(b, a)
    IN  /\ Len(list) <= 5
        /\ Len(list) = Min5(Cardinality(pool))
        /\ Cardinality(listed) = Len(list)
        /\ \A k \in 1..Len(list) : \E j \in pool : list[k] = data[j]
        /\ \A k \in 1..(Len(list) - 1) : ~Before(list[k + 1], list[k])
        /\ \A j \in pool \ listed : \A k \in 1..Len(list) : ~Before(data[j], list[k])

C11_TopFiveLists ==
    op = "suneung_claude" =>
        LET data == out.suneung_data
        IN  /\ IsTopList(out.cold, data, {j \in 1..Len(data) : AtMost20(data[j])}, TRUE)
            /\ IsTopList(out.warm, data, {j \in 1..Len(data) : AtLeast80(data[j])}, FALSE)
            /\ \A k \in 1..Len(out.cold) : \A h \in 1..Len(out.warm) : out.cold[k] # out.warm[h]

\* six exam days in each pool, five of them listed
C11_Witness ==
    /\ op = "suneung_claude"
    /\ Cardinality({j \in 1..Len(out.suneung_data) : AtMost20(out.suneung_data[j])}) = 6
    /\ Cardinality({j \in 1..Len(out.suneung_data) : AtLeast80(out.suneung_data[j])}) = 6
    /\ Len(out.cold) = 5
    /\ Len(out.warm) = 5
    /\ FEq(out.cold[5].percentile, Num(10, 1))
    /\ FEq(out.warm[5].percentile, Num(80, 1))

\* C12 as stated: started on a missing or unparseable file, either dashboard
\* shows a fatal message, halts, and shows no tab, metric or data notice
Started == op \in {"main_claude", "main_gemini"}
Shown(what) == \E k \in 1..Len(out.shown) : out.shown[k] = what

C12_NoDashboardOnLoadFailure ==
    (Started /\ args.kind \in {"missing", "bad"}) =>
        /\ out.halted
        /\ Shown("st.error") \/ Shown("exception")
        /\ ~Shown("st.tabs")
        /\ ~Shown("st.metric")
        /\ ~Shown("sidebar.success")
        /\ ~Shown("sidebar.info")

\* C13 as stated, its loader half: on a file that decodes, a row with a date
\* or a temperature that does not parse never aborts the load, and the table
\* has the missing-value marker in its place (a row without a date is as a
\* whole missing)
Decodes ==
    \/ op = "main_claude" /\ args.kind \in {"both", "cp949"}
    \/ op = "main_gemini" /\ args.kind \in {"both", "utf8"}
    \/ op = "main_gemini" /\ args.kind = "cp949" /\ args.source = "upload"

C13_MalformedRowsCoerced ==
    (Started /\ Decodes) =>
        LET kept == {i \in 1..Len(args.rows) : args.rows[i].date # BadDate}
        IN  /\ ~Shown("exception")
            /\ Len(df) = Cardinality(kept)
            /\ \A j \in 1..Len(df), f \in Fields : df[j][f] # BadNum
            /\ \A j \in 1..Len(df) : df[j].date # BadDate

\* C14: every entry of the second dashboard's exam-date table has statistics:
\* get_historical_stats for its month/day is not None and counts at least one
\* record, and the entry's historical mean, deviation and percentile are the
\* computed ones, never the None of the fallbacks
C14_KeptEntryHasStats ==
    op = "suneung_claude" =>
        \A j \in 1..Len(out.suneung_data) :
            LET e == out.suneung_data[j]
                stats == get_historical_stats(df, e.date[2], e.date[3])
            IN  /\ stats.kind = "stats"
                /\ stats.count >= 1
                /\ e.hist_mean = stats.avg_mean
                /\ e.hist_mean.kind # "none"
                /\ e.deviation.kind # "none"
                /\ e.percentile.kind # "none"
                /\ e.percentile = calculate_percentile(df, e.date[2], e.date[3], e.avg, "avg")

\* an entry whose record is the only one of its month/day, and one whose
\* month/day has no present reading
C14_Witness ==
    /\ op = "suneung_claude"
    /\ \E j, k \in 1..Len(out.suneung_data) :
          /\ get_historical_stats(df, out.suneung_data[j].date[2], out.suneung_data[j].date[3]).count = 1
          /\ out.suneung_data[j].hist_mean.kind = "num"
          /\ out.suneung_data[k].hist_mean.kind = "nan"
          /\ out.suneung_data[k].percentile.kind = "nan"

\* C15 as stated: the percentile of a record's own value, for a selected date
\* and for an exam-date entry, is at most 100 (n - 1) / n, n being the number
\* of present same-month/day readings, so below 100; and the hottest band is
\* given to it only when n > 20
PresentCount(month, day, f) == Len(DropNa(Column(SameDay(df, month, day), f)))

OwnValueBound(pct, n) ==
    /\ pct.kind = "num"
    /\ pct.num * n <= 100 * (n - 1) * pct.den
    /\ FLess(pct, Num(100, 1))

C15_OwnValueBelowHundred ==
    /\ (op = "tab1_claude" /\ out.kind = "compare") =>
          \A f \in Fields :
              LET n == PresentCount(args.selected_date[2], args.selected_date[3], f)
              IN  /\ OwnValueBound(out[f].pct, n)
                  /\ out[f].desc.band = 7 => n > 20
    /\ op = "suneung_claude" =>
          \A j \in 1..Len(out.suneung_data) :
              LET e == out.suneung_data[j]
                  n == PresentCount(e.date[2], e.date[3], "avg")
              IN  /\ OwnValueBound(e.percentile, n)
                  /\ get_temperature_description(e.percentile).band = 7 => n > 20

\* the same for the records whose own reading is present
C15_PresentOwnValueBelowHundred ==
    /\ (op = "tab1_claude" /\ out.kind = "compare") =>
          \A f \in Fields :
              LET n == PresentCount(args.selected_date[2], args.selected_date[3], f)
                  row == OnDate(df, args.selected_date)[1]
              IN  row[f] # NaN =>
                      /\ OwnValueBound(out[f].pct, n)
                      /\ out[f].desc.band = 7 => n > 20
    /\ op = "suneung_claude" =>
          \A j \in 1..Len(out.suneung_data) :
              LET e == out.suneung_data[j]
                  n == PresentCount(e.date[2], e.date[3], "avg")
              IN  e.avg # NaN =>
                      /\ OwnValueBound(e.percentile, n)
                      /\ get_temperature_description(e.percentile).band = 7 => n > 20

\* the warmest of twenty-one years is in the hottest band, at 100 * 20 / 21
C15_HottestBandOfTwentyOne ==
    /\ op = "tab1_claude"
    /\ out.kind = "compare"
    /\ PresentCount(11, 13, "avg") = 21
    /\ out.avg.pct = Num(2000, 21)
    /\ out.avg.desc.band = 7

\* C16: in the first dashboard's date comparison the historical mean behind
\* the deviation is over the same-month/day records of every year but the
\* selected one, while the rank and the count shown are over all of them, the
\* selected year included; a selected year that is the only one with the
\* month/day has an undefined mean and deviation and, with its one record,
\* rank 1 of 1
C16_MeanExcludesSelectedYearRankIncludes ==
    (op = "tab1_gemini" /\ out.kind # "warning") =>
        LET d == args.selected_date
            same == Matching(d[2], d[3])
            OtherYear(r) == r.date[2] = d[2] /\ r.date[3] = d[3] /\ r.date[1] # d[1]
            others == SelectSeq(df, LAMBDA r : OtherYear(r) /\ r.avg # NaN)
            total == [k \in 1..Len(others) |-> others[k].avg]
            mean == IF others = <<>> THEN NaNF ELSE Num(SumSeq(total), Len(others))
            higher == {i \in same : df[i].avg # NaN /\ df[i].avg > out.cur_temp}
        IN  /\ out.avg_temp_hist = mean
            /\ out.diff = FSub(FromReading(out.cur_temp), mean)
            /\ out.kind = "info" =>
                  /\ out.total_count = Cardinality(same)
                  /\ Len(out.rank) = Cardinality(same)
                  /\ out.cur_rank = 1 + Cardinality(higher)
            /\ (\A i \in same : df[i].date[1] = d[1]) =>
                  /\ out.avg_temp_hist.kind = "nan"
                  /\ out.diff.kind = "nan"
                  /\ (out.kind = "info" /\ Cardinality(same) = 1) =>
                        (out.cur_rank = 1 /\ out.total_count = 1)

\* the selected year is the only one with its month/day, among other records
C16_Witness ==
    /\ op = "tab1_gemini"
    /\ out.kind = "info"
    /\ Len(df) = 3
    /\ Cardinality(Matching(args.selected_date[2], args.selected_date[3])) = 1
    /\ out.avg_temp_hist.kind = "nan"
    /\ out.diff.kind = "nan"
    /\ out.cur_rank = 1
    /\ out.total_count = 1

\* the coldest of three years: below the mean of the other two, rank 3 of 3
C16_ColdestOfThree ==
    /\ op = "tab1_gemini"
    /\ out.kind = "info"
    /\ out.total_count = 3
    /\ out.cur_rank = 3
    /\ out.avg_temp_hist.kind = "num"
    /\ FLess(out.diff, Num(0, 1))

====
